---- MODULE Spec2Model ----
\* The parameter-change handlers of serverless-parameter-subscriber, in the
\* four forms the repository holds:
\*   "legacy"   src/src/handler.ts:67-98          parameterSubscriber
\*   "registry" src/lib/serverless-parameter-subscriber.js:431-455  handler
\*   "paged"    src/unnamed/part_002:163-187     handler
\*   "table"    src/lambda/handler.js:52-73       handler (src/unnamed/part_001)
\* together with the parameter store (SSM) and the target functions (Lambda)
\* they talk to. One step of the model is the handler running from one await
\* to the next: the completion of one AWS call and the synchronous code after it.
EXTENDS Integers, Sequences, FiniteSets, TLC

VARIABLES
    variant,            \* which handler is deployed
    ssmValue,           \* parameter store: parameter name -> value
    registry,           \* parameter store: the /subscriber/... entries, in listing order
    tokenMode,          \* how the store ends (or does not end) a paged listing
    processEnv,         \* process.env.PARAMETER_SUBSCRIPTIONS, a text ("" when not set)
    loadError,          \* the handler's module threw while it was loaded
    subscriptions,      \* the table parsed from PARAMETER_SUBSCRIPTIONS
    lambdaEnv,          \* Lambda: function name -> Environment.Variables
    pc,                 \* the await the handler is suspended at
    event,              \* event.detail of the invocation
    updatedParamValue,  \* const updatedParamValue
    nextToken,          \* the position handed to the next page fetch
    acc,                \* items of the pages fetched so far
    depth,              \* pages fetched so far by the recursion that is under way
    parameters,         \* the resolved entries / the table row being reduced
    idx,                \* index of the entry the reduce is at
    lambdaFunctionConfig, \* result of getFunctionConfiguration
    updateResults,      \* accumulated result strings
    pending,            \* legacy: indexes whose updateFunctionConfiguration is in flight
    ret,                \* what the invocation returned
    calls,              \* history: AWS operations called in this invocation
    writes,             \* history: updateFunctionConfiguration calls of this invocation
    failed,             \* history: calls of this invocation that raised
    prev,               \* history: the invocation before this one, where it is kept
    invocations,        \* the invocations that run side by side, in the order they started
    notified,           \* history: the changes of the store the rule sent a notification for
    plugin,             \* which plugin packages the service
    functions,          \* serverless.service.functions, in Object.entries order
    localParameters,    \* the template's own AWS::SSM::Parameter resources: name -> value
    Resources,          \* the subscriber entries put in template.Resources
    parameterSubscribers, \* const parameterSubscribers of updateCloudFormation
    Variables,          \* the template's Environment.Variables of each function
    paramCache,         \* this.paramCache
    callbacks,          \* the per-parameter callbacks that await paramValue
    answers,            \* history: what getParameter answered to the packaging
    account,            \* what the AWS account holds of the subscriber's own resources
    func,               \* const func of deployParamStoreSubscriber
    deployPc            \* where the packaging, and the deployment after it, is

vars == <<variant, ssmValue, registry, tokenMode, processEnv, loadError, subscriptions, lambdaEnv, pc,
          event, updatedParamValue, nextToken, acc, depth, parameters, idx,
          lambdaFunctionConfig, updateResults, pending, ret, calls, writes, failed, prev,
          invocations, notified, plugin, functions, localParameters, Resources, parameterSubscribers, Variables,
          paramCache, callbacks, answers, account, func, deployPc>>

\* What the packaging of the service works on.
deployment == <<plugin, functions, localParameters, Resources, parameterSubscribers, Variables,
                paramCache, callbacks, answers, account, func, deployPc>>

\* The invocations that overlap in time, and what they were started for.
overlapping == <<invocations, notified>>

\* What a handler finds and leaves as it is.
store == <<variant, ssmValue, registry, tokenMode, processEnv, loadError, subscriptions, deployment,
           overlapping>>

-----------------------------------------------------------------------------
\* Bounds of the model.

MaxSubs == 3        \* most entries subscribed to one parameter
MaxPageSize == 2    \* most entries the store puts in one page

MaxAcc == MaxSubs + 1  \* most items a listing that never ends is followed for
MaxDepth == MaxSubs + 2          \* most pages a listing is followed for
MaxParams == 2      \* most entries of one function's parameters block

-----------------------------------------------------------------------------
\* Values.

Undefined == "<undefined>"     \* JavaScript undefined (a missing property)
Garbage == "not json"          \* a registry value JSON.parse rejects

Variants == {"legacy", "registry", "paged", "table"}
RegistryVariants == {"legacy", "registry", "paged"}
SequentialVariants == {"registry", "paged", "table"}
TokenModes == {"undefined", "null", "same"}

ParamNames == {"p", "q"}
Operations == {"Create", "Update", "Delete"}
Funcs == {"f1", "f2"}
EnvNames == {"A", "B"}

NoEvent == [name |-> Undefined, operation |-> Undefined]
NoConfig == [v \in EnvNames |-> Undefined]

SeqsUpTo(S, n) == UNION {[1..k -> S] : k \in 0..n}

\* Continuation tokens: undefined, null, or the offset the next page starts at.
UndefinedToken == [kind |-> "undefined", at |-> 0]
NullToken == [kind |-> "null", at |-> 0]
Token(k) == [kind |-> "token", at |-> k]

-----------------------------------------------------------------------------
\* The registry entries the plugin writes, and their parsing.

\* `{"lambda":"${funcName}","environment":"${envName}"}`
SubscriberValue(funcName, envName) ==
    "{lambda:" \o funcName \o ",environment:" \o envName \o "}"

\* The levels of a parameter name, which '/' separates.
Segments(paramName) == IF paramName = "p/x" THEN <<"p", "x">> ELSE <<paramName>>

\* Name: `/subscriber/${paramName}/${envName}/${funcName}`
addParamSubscriber(paramName, envName, funcName) ==
    [Name |-> <<"subscriber">> \o Segments(paramName) \o <<envName, funcName>>,
     Value |-> SubscriberValue(funcName, envName)]

\* JSON.parse(parameter.Value): the object the text denotes, or a throw.
JSONparse(text) ==
    IF \E f \in Funcs, e \in EnvNames : text = SubscriberValue(f, e)
    THEN LET fe == CHOOSE fe \in Funcs \X EnvNames : text = SubscriberValue(fe[1], fe[2])
         IN  [threw |-> FALSE, lambda |-> fe[1], environment |-> fe[2]]
    ELSE [threw |-> TRUE, lambda |-> Undefined, environment |-> Undefined]

\* The (function, variable) pairs the service's functions declare for parameter p.
Declared == {<<"f1", "A">>, <<"f1", "B">>, <<"f2", "A">>}

RegistryEntries ==
    {addParamSubscriber("p", d[2], d[1]) : d \in Declared}
        \cup {[Name |-> <<"subscriber", "p", "A", "f1">>, Value |-> v] : v \in {Undefined, Garbage}}

TableRows == {[func |-> d[1], env |-> d[2]] : d \in Declared}

\* The table as the plugin embeds it, JSON.stringify(parameterSubscribers), and
\* as the handler's module reads it back. A text is the sequence of its tokens;
\* the empty text stands for a variable that is not set.
RowText(row) == "{func:" \o row.func \o ",env:" \o row.env \o "}"

MemberText(table, name) ==
    IF name \in DOMAIN table
    THEN <<name, "[">> \o [i \in 1..Len(table[name]) |-> RowText(table[name][i])] \o <<"]">>
    ELSE <<>>

JSONstringify(table) == <<"{">> \o MemberText(table, "p") \o MemberText(table, "q") \o <<"}">>

RowOf(text) == CHOOSE row \in TableRows : RowText(row) = text
IsRowText(text) == \E row \in TableRows : RowText(row) = text

NoTable == [threw |-> TRUE, table |-> <<>>]

RECURSIVE ParseMembers(_, _, _)
ParseMembers(text, i, table) ==
    IF i > Len(text) THEN NoTable
    ELSE IF text[i] = "}" THEN (IF i = Len(text) THEN [threw |-> FALSE, table |-> table] ELSE NoTable)
    ELSE IF text[i] \notin ParamNames \/ text[i] \in DOMAIN table THEN NoTable
    ELSE IF i + 1 > Len(text) \/ text[i + 1] # "[" THEN NoTable
    ELSE IF ~\E j \in (i + 2)..Len(text) : text[j] = "]" THEN NoTable
    ELSE LET j == CHOOSE j \in (i + 2)..Len(text) :
                      text[j] = "]" /\ \A k \in (i + 2)..(j - 1) : text[k] # "]"
         IN  IF \E k \in (i + 2)..(j - 1) : ~IsRowText(text[k]) THEN NoTable
             ELSE ParseMembers(text, j + 1,
                               table @@ (text[i] :> [k \in 1..(j - i - 2) |-> RowOf(text[i + 1 + k])]))

\* JSON.parse(text) of a table: the table the text denotes, or a throw.
JSONparseTable(text) ==
    IF Len(text) = 0 \/ text[1] # "{" THEN NoTable ELSE ParseMembers(text, 2, <<>>)

\* process.env.PARAMETER_SUBSCRIPTIONS || '{}'
OrEmptyObject(text) == IF text = <<>> THEN <<"{", "}">> ELSE text

\* The texts the variable is started with: not set, a table of parameter p,
\* a table cut short, and a text that is no JSON at all.
Tables == {[n \in {"p"} |-> rows] : rows \in SeqsUpTo(TableRows, MaxSubs) \ {<<>>}}
Truncated == <<"{", "p", "[", RowText([func |-> "f1", env |-> "A"])>>
EnvTexts == {<<>>, Truncated, <<Garbage>>} \cup {JSONstringify(t) : t \in Tables}

\* (mutant) while (subscription.length > 0) { ... subscription.shift() ... }:
\* the rows are taken out of the process-wide table as they are processed
Drained(table, name) == IF name \in DOMAIN table THEN [table EXCEPT ![name] = <<>>] ELSE table

\* subscription.reduce(...) builds its result beside the array: the table is
\* what it was
Reduced(table, name) == table

\* (mutant) subscriptions[updatedParamName] || []: a missing key is never undefined
LookupOrEmpty(table, name) ==
    [defined |-> TRUE, rows |-> IF name \in DOMAIN table THEN table[name] ELSE <<>>]

\* subscriptions[updatedParamName], and whether it is undefined
Lookup(table, name) ==
    IF name \in DOMAIN table THEN [defined |-> TRUE, rows |-> table[name]]
    ELSE [defined |-> FALSE, rows |-> <<>>]

\* const subscriberParameterPath = paramName => `/subscriber/${paramName}/`
subscriberParameterPath(paramName) == <<"subscriber">> \o Segments(paramName)

IsUnder(name, path) == Len(name) > Len(path) /\ SubSeq(name, 1, Len(path)) = path

\* Everything the store holds under a path (Recursive: true), in listing order.
Listing(path) == SelectSeq(registry, LAMBDA e : IsUnder(e.Name, path))

-----------------------------------------------------------------------------
\* ssm.getParametersByPath: one page. The store picks the page size s, and
\* whether an empty page carries a Parameters list at all.

getParametersByPath(path, token, s, withList) ==
    LET all == Listing(path)
        off == IF token.kind = "token" THEN token.at ELSE 0
        last == off + s >= Len(all)
    IN  [hasParameters |-> withList,
         Parameters |-> SubSeq(all, off + 1, off + s),
         NextToken |-> IF tokenMode = "same" THEN Token(0)
                       ELSE IF ~last THEN Token(off + s)
                       ELSE IF tokenMode = "null" THEN NullToken
                       ELSE UndefinedToken]

PageSizes(path, token) ==
    LET off == IF token.kind = "token" THEN token.at ELSE 0
    IN  {s \in 0..MaxPageSize : off + s <= Len(Listing(path)) /\ Len(acc) + s <= MaxAcc}

\* items === undefined ? [] : items      ( parameterResult.Parameters ?? [] )
ItemArray(page) == IF page.hasParameters THEN page.Parameters ELSE <<>>

\* (mutant) the value is kept in the process: a name fetched by the invocation
\* before is not fetched again
getParameterMemoised(name) ==
    IF prev.event.name = name /\ prev.value # Undefined THEN prev.value ELSE ssmValue[name]

\* ssm.getParameter: Parameter?.Value of the answer.
getParameter(name) == ssmValue[name]

-----------------------------------------------------------------------------
\* The handlers' pure parts.

\* Mutant: the ?? '' fallback forgotten.
ValueAsFetched(v) == v

\* updatedParamValueResult.Parameter?.Value ?? ''   ( || '' in the legacy handler)
ValueOrEmpty(v) == IF v = Undefined THEN "" ELSE v

\* (mutant) { ...Variables, [envVar]: (Variables[envVar] || '') + value }: the
\* value is added to the one the variable has
MergedAppending(config, envVar, value) ==
    [config EXCEPT ![envVar] = IF config[envVar] = Undefined THEN value ELSE config[envVar] \o value]

\* (mutant) { [envVar]: value, ...Variables }: a variable the target already
\* has keeps its value
MergedUnderVariables(config, envVar, value) ==
    IF config[envVar] = Undefined THEN [config EXCEPT ![envVar] = value] ELSE config

\* { ...lambdaFunctionConfig.Environment?.Variables, [envVar]: value }
MergedVariables(config, envVar, value) == [config EXCEPT ![envVar] = value]

\* The legacy handler: Variables: { [subscriberParamValue.environment]: updatedParamValue }
OnlyVariable(config, envVar, value) ==
    [v \in EnvNames |-> IF v = envVar THEN value ELSE Undefined]

\* Mutant: the continuation token ignored, the first page taken for the whole list.
allFromPagedFirstPageOnly(position) == TRUE

\* allFromPaged: position === undefined || position === null
allFromPagedIsLast(position) == position.kind \in {"undefined", "null"}

\* fetchParametersByPath of the plugin's registry handler: NextToken === undefined
fetchParametersByPathIsLast(position) == position.kind = "undefined"

IsLastPage(position) ==
    IF variant = "paged" THEN allFromPagedIsLast(position)
    ELSE fetchParametersByPathIsLast(position)

\* The target (function, variable) of entry i of the resolved list.
TargetOf(entry) ==
    IF variant = "table" THEN [threw |-> FALSE, lambda |-> entry.func, environment |-> entry.env]
    ELSE JSONparse(entry.Value)

\* (mutant) return [result, ...acc]: the newest result is put first
AccumulatedInFront(results, result) == <<result>> \o results

\* return [...acc, result]
Accumulated(results, result) == Append(results, result)

Skipped == [status |-> "Not updating as no subscriber parameter value found.", lambda |-> Undefined]
Updated(f) == [status |-> "has been updated.", lambda |-> f]

\* synchronously / subscription.reduce: from entry i on, run the synchronous
\* code of updateLambdaFunctions up to its first await, a throw, or the end.
RECURSIVE synchronously(_, _, _)
synchronously(items, i, results) ==
    IF i > Len(items) THEN [at |-> "end", idx |-> i, results |-> results]
    ELSE IF variant # "table" /\ items[i].Value = Undefined
         THEN synchronously(items, i + 1, Accumulated(results, Skipped))
    ELSE IF TargetOf(items[i]).threw THEN [at |-> "throw", idx |-> i, results |-> results]
    ELSE [at |-> "getFunctionConfiguration", idx |-> i, results |-> results]

-----------------------------------------------------------------------------
\* The state after construction: a deployed handler, a parameter store and
\* two target functions, f1 with variables set and f2 with no Environment.

InitialEnv == [f \in Funcs |-> IF f = "f1" THEN [v \in EnvNames |-> "old"] ELSE NoConfig]

\* An account with no role, no function and no rule of the subscriber.
NoAccount ==
    [first |-> TRUE, role |-> FALSE, policy |-> FALSE, function |-> FALSE, logGroup |-> FALSE,
     rule |-> FALSE, target |-> Undefined, permission |-> FALSE]

\* No invocation before this one, or none that returned success.
NoPrev == [event |-> NoEvent, value |-> Undefined, parameters |-> <<>>, env |-> InitialEnv]

\* The service is deployed; no packaging is under way.
NoDeployment ==
    /\ plugin = "none"
    /\ functions = <<>>
    /\ localParameters = <<>>
    /\ Resources = {}
    /\ parameterSubscribers = <<>>
    /\ Variables = <<>>
    /\ paramCache = <<>>
    /\ callbacks = {}
    /\ answers = {}
    /\ account = NoAccount
    /\ func = Undefined
    /\ deployPc = "done"

\* No notification has arrived yet.
NotInvoked ==
    /\ lambdaEnv = InitialEnv
    /\ pc = "idle"
    /\ event = NoEvent
    /\ updatedParamValue = Undefined
    /\ nextToken = UndefinedToken
    /\ acc = <<>>
    /\ depth = 0
    /\ parameters = <<>>
    /\ idx = 0
    /\ lambdaFunctionConfig = NoConfig
    /\ updateResults = <<>>
    /\ pending = {}
    /\ ret = "none"
    /\ calls = {}
    /\ writes = <<>>
    /\ failed = {}
    /\ prev = NoPrev
    /\ invocations = <<>>
    /\ notified = <<>>

Init ==
    /\ variant \in Variants
    /\ ssmValue \in {[n \in ParamNames |-> IF n = "p" THEN v ELSE "w"] : v \in {Undefined, "v1"}}
    /\ tokenMode \in (IF variant \in {"registry", "paged"} THEN TokenModes ELSE {"undefined"})
    /\ registry \in (IF variant \in RegistryVariants THEN SeqsUpTo(RegistryEntries, MaxSubs) ELSE {<<>>})
    /\ processEnv \in (IF variant = "table" THEN EnvTexts ELSE {<<>>})
    /\ loadError = (variant = "table" /\ JSONparseTable(OrEmptyObject(processEnv)).threw)
    /\ subscriptions = (IF variant = "table" THEN JSONparseTable(OrEmptyObject(processEnv)).table ELSE <<>>)
    /\ NotInvoked
    /\ NoDeployment

-----------------------------------------------------------------------------
\* How an invocation ends, and how it goes on after synchronous code.

\* return { message: status }
Finish(status) == pc' = "idle" /\ ret' = status

\* An exception: caught by the legacy handler's try/catch ({ message: 'failed' }),
\* a rejection of the handler's promise in the others.
Raise == Finish(IF variant = "legacy" THEN "failed" ELSE "rejected")

Failure(call, i) == [call |-> call, idx |-> i]

\* The reduce goes on from the outcome r of its synchronous code.
Continue(r, callsNow) ==
    /\ idx' = r.idx
    /\ updateResults' = r.results
    /\ CASE r.at = "end" ->
              Finish("success") /\ calls' = callsNow /\ failed' = failed
         [] r.at = "throw" ->
              Raise /\ calls' = callsNow /\ failed' = failed \cup {Failure("JSON.parse", r.idx)}
         [] OTHER ->
              /\ pc' = "getFunctionConfiguration"
              /\ ret' = ret
              /\ calls' = callsNow \cup {"getFunctionConfiguration"}
              /\ failed' = failed

IsChange(operation) == operation = "Update" \/ operation = "Create"

-----------------------------------------------------------------------------
\* The handlers, one action per await.

\* The event arrives: the handler runs up to its first await.
handler(name, operation) ==
    /\ pc = "idle"
    /\ event' = [name |-> name, operation |-> operation]
    /\ updatedParamValue' = Undefined
    /\ nextToken' = UndefinedToken
    /\ acc' = <<>>
    /\ depth' = 0
    /\ idx' = 0
    /\ lambdaFunctionConfig' = NoConfig
    /\ updateResults' = <<>>
    /\ pending' = {}
    /\ writes' = <<>>
    /\ IF loadError
       THEN \* the module did not load: the invocation ends with the error of
            \* its JSON.parse
            /\ parameters' = <<>>
            /\ Finish("rejected") /\ calls' = {} /\ failed' = {Failure("JSON.parse", 0)}
       ELSE IF variant = "table"
       THEN \* const subscription = subscriptions[updatedParamName]
            /\ failed' = {}
            /\ IF IsChange(operation) /\ Lookup(subscriptions, name).defined
               THEN /\ parameters' = Lookup(subscriptions, name).rows
                    /\ pc' = "getParameter" /\ ret' = "none" /\ calls' = {"getParameter"}
               ELSE /\ parameters' = <<>>
                    /\ Finish("success") /\ calls' = {}
       ELSE /\ failed' = {}
            /\ parameters' = <<>>
            /\ pc' = "getParameter" /\ ret' = "none" /\ calls' = {"getParameter"}
    /\ UNCHANGED <<store, lambdaEnv>>

Invoke(name, operation) == handler(name, operation) /\ UNCHANGED prev

\* await ssm.getParameter({ Name: updatedParamName }).promise() resolves.
GetParameterReturns ==
    /\ pc = "getParameter"
    /\ updatedParamValue' = ValueOrEmpty(getParameter(event.name))
    /\ IF variant = "table"
       THEN Continue(synchronously(parameters, 1, <<>>), calls)
       ELSE /\ UNCHANGED <<idx, updateResults, failed>>
            /\ IF IsChange(event.operation)
               THEN pc' = "getParametersByPath" /\ ret' = ret
                      /\ calls' = calls \cup {"getParametersByPath"}
               ELSE Finish("success") /\ calls' = calls
    /\ subscriptions' = Reduced(subscriptions, event.name)
    /\ UNCHANGED <<prev, deployment, overlapping, variant, ssmValue, registry, tokenMode, processEnv,
                   loadError>>
    /\ UNCHANGED <<lambdaEnv, event, nextToken, acc, depth, parameters,
                   lambdaFunctionConfig, pending, writes>>

\* The legacy handler's Promise.all(Parameters.map(updateLambdaFunctions(value))):
\* every entry's synchronous code runs at once, every write is issued.
LegacyThrows(items) == {i \in 1..Len(items) : items[i].Value # Undefined /\ JSONparse(items[i].Value).threw}
LegacyIssued(items) == {i \in 1..Len(items) : items[i].Value # Undefined /\ ~JSONparse(items[i].Value).threw}
LegacyResults(items) ==
    [i \in 1..Len(items) |-> IF items[i].Value = Undefined THEN Skipped
                             ELSE Updated(JSONparse(items[i].Value).lambda)]

LegacyFanOut(page) ==
    /\ UNCHANGED <<nextToken, acc, depth, idx>>
    /\ IF ~page.hasParameters
       THEN /\ Finish("success")
            /\ UNCHANGED <<parameters, pending, updateResults, calls, failed>>
       ELSE LET items == page.Parameters IN
            /\ parameters' = items
            /\ pending' = LegacyIssued(items)
            /\ calls' = calls \cup (IF LegacyIssued(items) = {} THEN {} ELSE {"updateFunctionConfiguration"})
            /\ failed' = failed \cup {Failure("JSON.parse", i) : i \in LegacyThrows(items)}
            /\ IF LegacyThrows(items) # {}
               THEN Raise /\ UNCHANGED updateResults
               ELSE IF LegacyIssued(items) = {}
               THEN Finish("success") /\ updateResults' = LegacyResults(items)
               ELSE pc' = "Promise.all" /\ ret' = ret /\ UNCHANGED updateResults

\* allFromPaged / fetchParametersByPath: one more page, or the whole list and
\* then the reduce over it.
PagedFetch(page) ==
    /\ UNCHANGED pending
    /\ IF IsLastPage(page.NextToken)
       THEN /\ parameters' = acc \o ItemArray(page)
            /\ depth' = 0
            /\ UNCHANGED <<nextToken, acc>>
            /\ Continue(synchronously(acc \o ItemArray(page), 1, <<>>), calls)
       ELSE /\ acc' = acc \o ItemArray(page)
            /\ nextToken' = page.NextToken
            /\ depth' = depth + 1
            /\ UNCHANGED <<parameters, idx, updateResults, pc, ret, calls, failed>>

\* await ssm.getParametersByPath({ Path, NextToken, Recursive: true }).promise() resolves.
GetParametersByPathReturns ==
    /\ pc = "getParametersByPath"
    /\ depth < MaxDepth
    /\ \E s \in PageSizes(subscriberParameterPath(event.name), nextToken), withList \in BOOLEAN :
         /\ s > 0 => withList
         /\ LET page == getParametersByPath(subscriberParameterPath(event.name), nextToken, s, withList)
            IN  IF variant = "legacy" THEN LegacyFanOut(page) ELSE PagedFetch(page)
    /\ UNCHANGED <<prev, store, lambdaEnv, event, updatedParamValue, lambdaFunctionConfig, writes>>

\* await lambda.getFunctionConfiguration({ FunctionName }).promise() resolves.
GetFunctionConfigurationReturns ==
    /\ pc = "getFunctionConfiguration"
    /\ lambdaFunctionConfig' = lambdaEnv[TargetOf(parameters[idx]).lambda]
    /\ pc' = "updateFunctionConfiguration"
    /\ calls' = calls \cup {"updateFunctionConfiguration"}
    /\ UNCHANGED <<prev, store, lambdaEnv, event, updatedParamValue, nextToken, acc, depth, parameters,
                   idx, updateResults, pending, ret, writes, failed>>

Write(i, target, variables, before, ok) ==
    [idx |-> i, FunctionName |-> target.lambda, environment |-> target.environment,
     value |-> updatedParamValue, Variables |-> variables, before |-> before, ok |-> ok]

\* await lambda.updateFunctionConfiguration({ FunctionName, Environment }).promise()
\* resolves: the target has the new variables; the reduce goes on.
UpdateFunctionConfigurationReturns ==
    /\ pc = "updateFunctionConfiguration"
    /\ LET target == TargetOf(parameters[idx])
           variables == MergedVariables(lambdaFunctionConfig, target.environment, updatedParamValue)
       IN  /\ lambdaEnv' = [lambdaEnv EXCEPT ![target.lambda] = variables]
           /\ writes' = Append(writes, Write(idx, target, variables, lambdaEnv[target.lambda], TRUE))
           /\ Continue(synchronously(parameters, idx + 1,
                                     Accumulated(updateResults, Updated(target.lambda))), calls)
    /\ UNCHANGED <<prev, store, event, updatedParamValue, nextToken, acc, depth, parameters,
                   lambdaFunctionConfig, pending>>

\* (mutant) getFunctionConfiguration(...).promise().catch(() => ({})): a read
\* of the target that fails is taken for a target with no variables
CaughtRead(call) == call = "getFunctionConfiguration"

\* None of the handlers' awaited calls has a catch of its own.
Caught(call) == FALSE

\* The awaited call rejects: nothing catches it but the legacy try/catch, and
\* the target of a rejected write is left as it was.
CallRaises ==
    /\ pc \in {"getParameter", "getParametersByPath", "getFunctionConfiguration",
               "updateFunctionConfiguration"}
    /\ failed' = failed \cup {Failure(pc, idx)}
    /\ IF Caught(pc)
       THEN /\ pc' = "updateFunctionConfiguration" /\ ret' = ret
            /\ lambdaFunctionConfig' = NoConfig
            /\ calls' = calls \cup {"updateFunctionConfiguration"}
            /\ writes' = writes
       ELSE /\ Raise
            /\ writes' = IF pc = "updateFunctionConfiguration"
                         THEN LET target == TargetOf(parameters[idx])
                              IN  Append(writes, Write(idx, target,
                                         MergedVariables(lambdaFunctionConfig, target.environment,
                                                         updatedParamValue),
                                         lambdaEnv[target.lambda], FALSE))
                         ELSE writes
            /\ UNCHANGED <<lambdaFunctionConfig, calls>>
    /\ UNCHANGED <<prev, store, lambdaEnv, event, updatedParamValue, nextToken, acc, depth, parameters,
                   idx, updateResults, pending>>

\* Legacy: one of the writes in flight is applied by Lambda.
LegacyUpdateReturns(i) ==
    /\ i \in pending
    /\ pending' = pending \ {i}
    /\ LET target == JSONparse(parameters[i].Value)
           variables == OnlyVariable(lambdaEnv[target.lambda], target.environment, updatedParamValue)
       IN  /\ lambdaEnv' = [lambdaEnv EXCEPT ![target.lambda] = variables]
           /\ writes' = Append(writes, Write(i, target, variables, lambdaEnv[target.lambda], TRUE))
    /\ IF pc = "Promise.all" /\ pending = {i}
       THEN Finish("success") /\ updateResults' = LegacyResults(parameters)
       ELSE UNCHANGED <<pc, ret, updateResults>>
    /\ UNCHANGED <<prev, store, event, updatedParamValue, nextToken, acc, depth, parameters, idx,
                   lambdaFunctionConfig, calls, failed>>

\* Legacy: one of the writes in flight is rejected; Promise.all rejects with it.
LegacyUpdateRaises(i) ==
    /\ i \in pending
    /\ pending' = pending \ {i}
    /\ failed' = failed \cup {Failure("updateFunctionConfiguration", i)}
    /\ LET target == JSONparse(parameters[i].Value)
       IN  writes' = Append(writes, Write(i, target,
                            OnlyVariable(lambdaEnv[target.lambda], target.environment, updatedParamValue),
                            lambdaEnv[target.lambda], FALSE))
    /\ IF pc = "Promise.all" THEN Raise ELSE UNCHANGED <<pc, ret>>
    /\ UNCHANGED <<prev, store, lambdaEnv, event, updatedParamValue, nextToken, acc, depth, parameters,
                   idx, lambdaFunctionConfig, updateResults, calls>>

Next ==
    \/ \E name \in ParamNames, operation \in Operations : Invoke(name, operation)
    \/ GetParameterReturns
    \/ GetParametersByPathReturns
    \/ GetFunctionConfigurationReturns
    \/ UpdateFunctionConfigurationReturns
    \/ CallRaises
    \/ \E i \in 1..MaxSubs : LegacyUpdateReturns(i)
    \/ \E i \in 1..MaxSubs : LegacyUpdateRaises(i)

Spec == Init /\ [][Next]_vars

-----------------------------------------------------------------------------
\* The handlers that list the registry, on a store that holds subscriptions to
\* parameter p and to parameter p/x, a level below it.

NestedEntries ==
    {addParamSubscriber("p", "A", "f1"), addParamSubscriber("p/x", "B", "f1"),
     addParamSubscriber("p/x", "A", "f2")}

InitNested ==
    /\ variant \in RegistryVariants
    /\ ssmValue = [n \in ParamNames |-> IF n = "p" THEN "v1" ELSE "w"]
    /\ tokenMode = "undefined"
    /\ registry \in SeqsUpTo(NestedEntries, MaxSubs)
    /\ processEnv = <<>>
    /\ loadError = FALSE
    /\ subscriptions = <<>>
    /\ NotInvoked
    /\ NoDeployment

NestedSpec == InitNested /\ [][Next]_vars

-----------------------------------------------------------------------------
\* Invocations one after another of the handlers that await each update in
\* turn, on a store whose values change between them. Of an invocation that
\* returned success with no call failed, the next one keeps the notification,
\* the value propagated, the subscriptions resolved and the targets it left.

Completed ==
    IF pc = "idle" /\ ret = "success" /\ failed = {}
    THEN [event |-> event, value |-> updatedParamValue, parameters |-> parameters, env |-> lambdaEnv]
    ELSE NoPrev

InvokeAgain(name, operation) == handler(name, operation) /\ prev' = Completed

StoredValues == {"v2"}

\* Somebody puts a new value of the parameter in the store while no invocation
\* is under way; the rule on aws.ssm then sends the notification.
PutParameter(name, value) ==
    /\ pc = "idle"
    /\ ssmValue[name] # value
    /\ ssmValue' = [ssmValue EXCEPT ![name] = value]
    /\ UNCHANGED <<variant, registry, tokenMode, processEnv, loadError, subscriptions, lambdaEnv, pc,
                   event, updatedParamValue, nextToken, acc, depth, parameters, idx,
                   lambdaFunctionConfig, updateResults, pending, ret, calls, writes, failed, prev,
                   deployment, overlapping>>

\* The handlers start on a store whose listing ends and whose registry entries
\* (or table rows) are the ones the plugin writes, one of a name.
InitCycles ==
    /\ Init
    /\ variant \in SequentialVariants
    /\ ~loadError
    /\ tokenMode # "same"
    /\ \A i \in 1..Len(registry) : registry[i] \in {addParamSubscriber("p", d[2], d[1]) : d \in Declared}
    /\ \A i, j \in 1..Len(registry) : i # j => registry[i] # registry[j]
    /\ \A n \in DOMAIN subscriptions :
         \A i, j \in 1..Len(subscriptions[n]) : i # j => subscriptions[n][i] # subscriptions[n][j]

\* The steps of the handler
Cycle ==
    \/ \E name \in ParamNames, operation \in Operations : InvokeAgain(name, operation)
    \/ GetParameterReturns
    \/ GetParametersByPathReturns
    \/ GetFunctionConfigurationReturns
    \/ UpdateFunctionConfigurationReturns
    \/ CallRaises

CyclesNext ==
    \/ Cycle
    \/ \E value \in StoredValues : PutParameter("p", value)

CyclesSpec == InitCycles /\ [][CyclesNext]_vars

-----------------------------------------------------------------------------
\* Invocations that overlap. Every change of a parameter makes the rule start
\* one invocation of the handler; Lambda runs them side by side, each from one
\* await to the next, on the one store and the same target functions.

MaxInvocations == 2     \* most changes of the store, and so most invocations

ConcurrentVariants == {"paged", "table"}

\* f1 subscribes A to p and B to q, f2 subscribes A to p.
ConcurrentTable ==
    ("p" :> <<[func |-> "f1", env |-> "A"], [func |-> "f2", env |-> "A"]>>)
        @@ ("q" :> <<[func |-> "f1", env |-> "B"]>>)

ConcurrentRegistry ==
    <<addParamSubscriber("p", "A", "f1"), addParamSubscriber("p", "A", "f2"),
      addParamSubscriber("q", "B", "f1")>>

\* The values a parameter is given one after the other.
NextValue == ("v0" :> "v1") @@ ("v1" :> "v2") @@ ("v2" :> "v3")
                 @@ ("w0" :> "w1") @@ ("w1" :> "w2") @@ ("w2" :> "w3")

InitConcurrent ==
    /\ variant \in ConcurrentVariants
    /\ ssmValue = [n \in ParamNames |-> IF n = "p" THEN "v0" ELSE "w0"]
    /\ tokenMode = "undefined"
    /\ registry = (IF variant = "paged" THEN ConcurrentRegistry ELSE <<>>)
    /\ processEnv = (IF variant = "table" THEN JSONstringify(ConcurrentTable) ELSE <<>>)
    /\ loadError = FALSE
    /\ subscriptions = (IF variant = "table" THEN JSONparseTable(OrEmptyObject(processEnv)).table ELSE <<>>)
    /\ NotInvoked
    /\ NoDeployment

\* What the overlapping invocations leave as it is: the state of the handler
\* that runs alone, and what is deployed.
alone == <<pc, event, updatedParamValue, nextToken, acc, depth, parameters, idx,
           lambdaFunctionConfig, updateResults, pending, ret, calls, writes, failed, prev>>
deployed == <<variant, registry, tokenMode, processEnv, loadError, subscriptions, deployment>>

\* A parameter is given its next value; the rule on aws.ssm sends the
\* notification of the change.
Notify(name) ==
    /\ Len(notified) < MaxInvocations
    /\ ssmValue' = [ssmValue EXCEPT ![name] = NextValue[ssmValue[name]]]
    /\ notified' = Append(notified, [name |-> name, value |-> NextValue[ssmValue[name]]])
    /\ UNCHANGED <<alone, deployed, lambdaEnv, invocations>>

\* The reduce of invocation i goes on from the outcome r of its synchronous code.
Reducing(i, r) ==
    [invocations[i] EXCEPT !.idx = r.idx, !.results = r.results,
                           !.pc = IF r.at = "end" THEN "done" ELSE r.at]

\* Lambda starts the handler for the next notification; it runs up to its
\* first await.
HandlerStarts ==
    /\ Len(invocations) < Len(notified)
    /\ LET name == notified[Len(invocations) + 1].name
           found == variant # "table" \/ Lookup(subscriptions, name).defined
       IN  invocations' = Append(invocations,
               [name |-> name, pc |-> IF found THEN "getParameter" ELSE "done",
                value |-> Undefined,
                rows |-> IF variant = "table" THEN Lookup(subscriptions, name).rows ELSE <<>>,
                idx |-> 0, config |-> NoConfig, results |-> <<>>])
    /\ UNCHANGED <<alone, deployed, lambdaEnv, ssmValue, notified>>

\* getParameter of invocation i resolves.
ValueFetched(i) ==
    /\ i \in DOMAIN invocations /\ invocations[i].pc = "getParameter"
    /\ LET fetched == [invocations EXCEPT ![i].value = ValueOrEmpty(getParameter(invocations[i].name))]
       IN  invocations' =
               IF variant = "table"
               THEN [fetched EXCEPT ![i] = [Reducing(i, synchronously(invocations[i].rows, 1, <<>>))
                                               EXCEPT !.value = fetched[i].value]]
               ELSE [fetched EXCEPT ![i].pc = "getParametersByPath"]
    /\ UNCHANGED <<alone, deployed, lambdaEnv, ssmValue, notified>>

\* fetchParametersByPath of invocation i resolves with every page of the listing.
SubscribersListed(i) ==
    /\ i \in DOMAIN invocations /\ invocations[i].pc = "getParametersByPath"
    /\ LET rows == Listing(subscriberParameterPath(invocations[i].name))
       IN  invocations' = [invocations EXCEPT
                              ![i] = [Reducing(i, synchronously(rows, 1, <<>>)) EXCEPT !.rows = rows]]
    /\ UNCHANGED <<alone, deployed, lambdaEnv, ssmValue, notified>>

\* getFunctionConfiguration of invocation i resolves.
TargetRead(i) ==
    /\ i \in DOMAIN invocations /\ invocations[i].pc = "getFunctionConfiguration"
    /\ invocations' = [invocations EXCEPT
                          ![i].config = lambdaEnv[TargetOf(invocations[i].rows[invocations[i].idx]).lambda],
                          ![i].pc = "updateFunctionConfiguration"]
    /\ UNCHANGED <<alone, deployed, lambdaEnv, ssmValue, notified>>

\* updateFunctionConfiguration of invocation i resolves: the target has the
\* variables the invocation merged from what it had read.
TargetWritten(i) ==
    /\ i \in DOMAIN invocations /\ invocations[i].pc = "updateFunctionConfiguration"
    /\ LET inv == invocations[i]
           target == TargetOf(inv.rows[inv.idx])
       IN  /\ lambdaEnv' = [lambdaEnv EXCEPT
                               ![target.lambda] = MergedVariables(inv.config, target.environment, inv.value)]
           /\ invocations' = [invocations EXCEPT
                                 ![i] = Reducing(i, synchronously(inv.rows, inv.idx + 1,
                                                     Accumulated(inv.results, Updated(target.lambda))))]
    /\ UNCHANGED <<alone, deployed, ssmValue, notified>>

\* The call invocation i awaits rejects, and the invocation with it.
CallRejected(i) ==
    /\ i \in DOMAIN invocations
    /\ invocations[i].pc \in {"getParameter", "getParametersByPath", "getFunctionConfiguration",
                               "updateFunctionConfiguration"}
    /\ invocations' = [invocations EXCEPT ![i].pc = "rejected"]
    /\ UNCHANGED <<alone, deployed, lambdaEnv, ssmValue, notified>>

ConcurrentNext ==
    \/ \E name \in ParamNames : Notify(name)
    \/ HandlerStarts
    \/ \E i \in 1..MaxInvocations : ValueFetched(i)
    \/ \E i \in 1..MaxInvocations : SubscribersListed(i)
    \/ \E i \in 1..MaxInvocations : TargetRead(i)
    \/ \E i \in 1..MaxInvocations : TargetWritten(i)
    \/ \E i \in 1..MaxInvocations : CallRejected(i)

ConcurrentSpec == InitConcurrent /\ [][ConcurrentNext]_vars

-----------------------------------------------------------------------------
\* The packaging of a service by the plugins: ServerlessParameterStoreSubscriber
\* ("store", src/src/handler.ts:174-416) writes one registry entry per
\* declaration into the template, ServerlessParameterSubscriber ("table",
\* src/lib/serverless-parameter-subscriber.js:42-290) builds the table it embeds
\* in the subscriber function and sets the functions' variables.

Plugins == {"store", "table"}
FuncKeys == <<"a", "b">>

\* FunctionArn of the function named subscriberLambdaName
SubscriberArn == "arn:ParameterStoreSubscriber"
DeployEnvNames == {"x_y", "xY", "z"}

\* func.name as the framework sets it: service-stage-key
FuncName(funcKey) == IF funcKey = "a" THEN "s-d-a" ELSE "s-d-b"

\* The characters of the names.
Spelling ==
    ("x_y" :> <<"x", "_", "y">>) @@ ("xY" :> <<"x", "Y">>) @@ ("z" :> <<"z">>)
        @@ ("s-d-a" :> <<"s", "-", "d", "-", "a">>) @@ ("s-d-b" :> <<"s", "-", "d", "-", "b">>)

toUpperCase(c) ==
    CASE c = "a" -> "A" [] c = "b" -> "B" [] c = "d" -> "D" [] c = "s" -> "S"
      [] c = "x" -> "X" [] c = "y" -> "Y" [] c = "z" -> "Z" [] OTHER -> c

\* str.split(/[-_ ]/)
RECURSIVE splitFrom(_, _, _)
splitFrom(chars, i, words) ==
    IF i > Len(chars) THEN words
    ELSE IF chars[i] \in {"-", "_", " "} THEN splitFrom(chars, i + 1, Append(words, <<>>))
    ELSE splitFrom(chars, i + 1, [words EXCEPT ![Len(words)] = Append(@, chars[i])])

split(chars) == splitFrom(chars, 1, << <<>> >>)

\* word.slice(0, 1).toUpperCase() + word.slice(1)
capitalised(word) == IF word = <<>> THEN <<>> ELSE <<toUpperCase(Head(word))>> \o Tail(word)

\* .join('')
RECURSIVE join(_)
join(words) == IF words = <<>> THEN <<>> ELSE Head(words) \o join(Tail(words))

pascalCase(str) == join([i \in 1..Len(split(Spelling[str])) |-> capitalised(split(Spelling[str])[i])])

\* The order the keys of a parameters block are written in.
KeyOrder == ("x_y" :> 1) @@ ("xY" :> 2) @@ ("z" :> 3)

\* A parameters block: variable name -> parameter name, the variable names
\* being the keys of an object.
ParameterBlocks ==
    {block \in SeqsUpTo(DeployEnvNames \X ParamNames, MaxParams) :
        \A i, j \in 1..Len(block) : i < j => KeyOrder[block[i][1]] < KeyOrder[block[j][1]]}

\* The declarations in the order the two nested Object.entries(...) visit them.
RECURSIVE Entries(_, _)
Entries(fns, i) ==
    IF i > Len(fns) THEN <<>>
    ELSE [k \in 1..Len(fns[i].parameters) |->
             [funcKey |-> fns[i].key, funcName |-> fns[i].name,
              envName |-> fns[i].parameters[k][1], paramName |-> fns[i].parameters[k][2]]]
         \o Entries(fns, i + 1)

\* `${paramName}Subscriber${pascalCase(funcName)}${pascalCase(envName)}`
resourceName(paramName, funcName, envName) ==
    <<paramName, "Subscriber">> \o pascalCase(funcName) \o pascalCase(envName)

\* template.Resources[resourceName] = { ... }
addParamSubscriberToTemplate(resources, paramName, envName, funcKey, funcName) ==
    {r \in resources : r.key # resourceName(paramName, funcName, envName)}
        \cup {[key |-> resourceName(paramName, funcName, envName),
                Name |-> <<"subscriber", paramName, envName, funcKey>>,
                Value |-> SubscriberValue(funcName, envName)]}

RECURSIVE addParamSubscribers(_, _, _)
addParamSubscribers(resources, entries, i) ==
    IF i > Len(entries) THEN resources
    ELSE addParamSubscribers(
             addParamSubscriberToTemplate(resources, entries[i].paramName, entries[i].envName,
                                          entries[i].funcKey, entries[i].funcName),
             entries, i + 1)

\* parameterSubscribers[paramName] = [...(parameterSubscribers[paramName] || []), { func, env }]
WithRow(table, paramName, row) ==
    IF paramName \in DOMAIN table THEN [table EXCEPT ![paramName] = Append(@, row)]
    ELSE table @@ (paramName :> <<row>>)

\* The table once the synchronous start of every callback has run.
RECURSIVE Subscribed(_, _, _)
Subscribed(table, entries, i) ==
    IF i > Len(entries) THEN table
    ELSE Subscribed(WithRow(table, entries[i].paramName,
                            [func |-> entries[i].funcName, env |-> entries[i].envName]),
                    entries, i + 1)

\* (mutant) the template's own parameters are not put in the cache
cacheNoLocalParameters(cache) == cache

\* this.paramCache[resource.Properties.Name] = resource.Properties.Value
cacheLocalParameters(cache) == localParameters @@ cache

\* The accounts a deployment starts on: the first deployment finds neither
\* the role nor the function; a later one finds what an earlier one left.
Accounts ==
    {[NoAccount EXCEPT !.first = ~role /\ ~function, !.role = role, !.policy = role,
                       !.function = function, !.logGroup = function, !.rule = function,
                       !.target = IF function THEN SubscriberArn ELSE Undefined,
                       !.permission = function] : role \in BOOLEAN, function \in BOOLEAN}

InitDeploy ==
    /\ plugin \in Plugins
    /\ functions \in {<<[key |-> FuncKeys[1], name |-> FuncName(FuncKeys[1]), parameters |-> b1],
                         [key |-> FuncKeys[2], name |-> FuncName(FuncKeys[2]), parameters |-> b2]>> :
                           b1 \in ParameterBlocks, b2 \in ParameterBlocks}
    /\ localParameters \in (IF plugin = "table" THEN {<<>>, "p" :> "local"} ELSE {<<>>})
    /\ ssmValue \in {[n \in ParamNames |-> IF n = "p" THEN v ELSE "w"] : v \in {Undefined, "v1"}}
    /\ Resources = {}
    /\ parameterSubscribers = <<>>
    /\ Variables = [k \in {FuncKeys[1], FuncKeys[2]} |-> <<>>]
    /\ paramCache = <<>>
    /\ callbacks = {}
    /\ answers = {}
    /\ account \in (IF plugin = "store" THEN Accounts ELSE {NoAccount})
    /\ func = Undefined
    /\ deployPc = "package"
    /\ variant = "table"
    /\ tokenMode = "undefined"
    /\ registry = <<>>
    /\ processEnv = <<>>
    /\ loadError = FALSE
    /\ subscriptions = <<>>
    /\ NotInvoked

\* What the packaging leaves as it is.
runtime == <<variant, ssmValue, registry, tokenMode, loadError, subscriptions, lambdaEnv, pc,
             event, updatedParamValue, nextToken, acc, depth, parameters, idx,
             lambdaFunctionConfig, updateResults, pending, ret, calls, writes, failed, prev,
             invocations, notified>>

\* The hook of the "store" plugin: addParamSubscribers, all of it synchronous.
AddParamSubscribers ==
    /\ plugin = "store" /\ deployPc = "package"
    /\ Resources' = addParamSubscribers(Resources, Entries(functions, 1), 1)
    /\ deployPc' = "done"
    /\ UNCHANGED <<runtime, processEnv, plugin, functions, localParameters, parameterSubscribers,
                   Variables, paramCache, callbacks, answers, account, func>>

\* The packaging is over: the table goes into the subscriber function's
\* PARAMETER_SUBSCRIPTIONS.
Packaged(table) == deployPc' = "done" /\ processEnv' = JSONstringify(table)

\* The hook of the "table" plugin, updateCloudFormation, up to its first await:
\* the local parameters are cached, and every callback of the two nested maps
\* runs its synchronous start, which adds its row and calls paramValue; a
\* paramValue that finds no value cached sends its getParameter.
UpdateCloudFormation ==
    /\ plugin = "table" /\ deployPc = "package"
    /\ paramCache' = cacheLocalParameters(paramCache)
    /\ parameterSubscribers' = Subscribed(<<>>, Entries(functions, 1), 1)
    /\ callbacks' = {[funcKey |-> e.funcKey, envName |-> e.envName, paramName |-> e.paramName,
                      fetching |-> e.paramName \notin DOMAIN cacheLocalParameters(paramCache)] :
                        e \in {Entries(functions, 1)[i] : i \in 1..Len(Entries(functions, 1))}}
    /\ IF Entries(functions, 1) = <<>>
       THEN Packaged(Subscribed(<<>>, Entries(functions, 1), 1))
       ELSE deployPc' = "Promise.all" /\ UNCHANGED processEnv
    /\ UNCHANGED <<runtime, plugin, functions, localParameters, Resources, Variables, answers,
                   account, func>>

\* A callback goes on with the value paramValue returns to it:
\* funcConfig.Environment.Variables[envName] = await this.paramValue(paramName)
Resume(cb, cache) ==
    /\ paramCache' = cache
    /\ Variables' = [Variables EXCEPT ![cb.funcKey] = (cb.envName :> cache[cb.paramName]) @@ @]
    /\ callbacks' = callbacks \ {cb}
    /\ IF callbacks = {cb} THEN Packaged(parameterSubscribers)
       ELSE UNCHANGED <<deployPc, processEnv>>
    /\ UNCHANGED <<runtime, plugin, functions, localParameters, Resources, parameterSubscribers,
                   account, func>>

Answer(paramName, value) == [paramName |-> paramName, rejected |-> FALSE, Value |-> value]
Rejection(paramName) == [paramName |-> paramName, rejected |-> TRUE, Value |-> Undefined]

\* paramValue returns: with the value that was cached, or with the answer of
\* its getParameter, which it caches. The store answers for a parameter it
\* holds; for one it does not hold the call rejects (ParameterNotFound).
ParamValueReturns(cb) ==
    /\ deployPc = "Promise.all" /\ cb \in callbacks
    /\ cb.fetching => ssmValue[cb.paramName] # Undefined
    /\ answers' = IF cb.fetching THEN answers \cup {Answer(cb.paramName, ssmValue[cb.paramName])}
                  ELSE answers
    /\ Resume(cb, IF cb.fetching THEN (cb.paramName :> ssmValue[cb.paramName]) @@ paramCache
                  ELSE paramCache)

\* The getParameter of paramValue rejects: the catch caches and returns ''.
ParamValueCatches(cb) ==
    /\ deployPc = "Promise.all" /\ cb \in callbacks /\ cb.fetching
    /\ answers' = answers \cup {Rejection(cb.paramName)}
    /\ Resume(cb, (cb.paramName :> "") @@ paramCache)

\* The value of a parameter is changed in the store while the callbacks wait.
StoreChanges(name, value) == deployPc = "Promise.all" /\ PutParameter(name, value)

Callbacks ==
    [funcKey : {FuncKeys[1], FuncKeys[2]}, envName : DeployEnvNames, paramName : ParamNames,
     fetching : BOOLEAN]

\* What the deployment after the packaging leaves as it is.
packaging == <<runtime, processEnv, plugin, functions, localParameters, Resources,
               parameterSubscribers, Variables, paramCache, callbacks, answers>>

\* The promise of deployParamStoreSubscriber rejects.
DeployRejects == deployPc' = "deploy failed"

\* The 'deploy:deploy' hook of the "store" plugin, deployParamStoreSubscriber,
\* up to its first await: updateLambdaPolicy sends putRolePolicy.
DeployParamStoreSubscriber ==
    /\ plugin = "store" /\ deployPc = "done"
    /\ deployPc' = "putRolePolicy"
    /\ UNCHANGED <<packaging, account, func>>

\* await this.iam.putRolePolicy({ PolicyName, RoleName, PolicyDocument }):
\* IAM attaches the policy to the role it holds, and rejects (NoSuchEntity)
\* when it holds no role of that name. Then subscriberLambda sends getFunction.
PutRolePolicyReturns ==
    /\ deployPc = "putRolePolicy"
    /\ IF account.role
       THEN account' = [account EXCEPT !.policy = TRUE] /\ deployPc' = "getFunction"
       ELSE DeployRejects /\ UNCHANGED account
    /\ UNCHANGED <<packaging, func>>

\* this.subscriberLambda().then(() => this.updateFunctionCode())
\*                        .catch(() => this.createFunction())
\* getFunction resolves for a function that exists, and updateFunctionCode is
\* sent; it rejects for one that does not, and createFunction starts with
\* lambdaRole's getRole.
GetFunctionReturns ==
    /\ deployPc = "getFunction"
    /\ deployPc' = IF account.function THEN "updateFunctionCode" ELSE "getRole"
    /\ UNCHANGED <<packaging, account, func>>

\* ensureLogGroupExists is awaited next: createLogGroup is sent.
Awaited(result) == func' = result /\ deployPc' = "createLogGroup"

\* updateFunctionCode resolves with the function's configuration.
UpdateFunctionCodeReturns ==
    /\ deployPc = "updateFunctionCode"
    /\ Awaited(SubscriberArn)
    /\ UNCHANGED <<packaging, account>>

\* updateFunctionCode rejects: its own catch logs the error and returns
\* nothing, so the chain resolves with undefined.
UpdateFunctionCodeCatches ==
    /\ deployPc = "updateFunctionCode"
    /\ Awaited(Undefined)
    /\ UNCHANGED <<packaging, account>>

\* lambdaRole: getRole, and createLambdaRole in its catch when IAM holds no
\* such role; either way the role exists when createFunction is sent.
LambdaRoleReturns ==
    /\ deployPc = "getRole"
    /\ account' = [account EXCEPT !.role = TRUE]
    /\ deployPc' = "createFunction"
    /\ UNCHANGED <<packaging, func>>

\* createFunction resolves with the configuration of the new function, and
\* rejects when a function of that name exists.
CreateFunctionReturns ==
    /\ deployPc = "createFunction"
    /\ IF account.function
       THEN DeployRejects /\ UNCHANGED <<account, func>>
       ELSE account' = [account EXCEPT !.function = TRUE] /\ Awaited(SubscriberArn)
    /\ UNCHANGED packaging

\* createLogGroup resolves, or rejects and is caught. Then
\* updateEventRule(func.FunctionArn): the property of undefined throws, a
\* defined one is passed on and putRule is sent.
CreateLogGroupReturns ==
    /\ deployPc = "createLogGroup"
    /\ account' = [account EXCEPT !.logGroup = TRUE]
    /\ IF func = Undefined THEN DeployRejects ELSE deployPc' = "putRule"
    /\ UNCHANGED <<packaging, func>>

PutRuleReturns ==
    /\ deployPc = "putRule"
    /\ account' = [account EXCEPT !.rule = TRUE]
    /\ deployPc' = "putTargets"
    /\ UNCHANGED <<packaging, func>>

\* putTargets({ Rule, Targets: [{ Id, Arn: funcArn }] })
PutTargetsReturns ==
    /\ deployPc = "putTargets"
    /\ account' = [account EXCEPT !.target = func]
    /\ deployPc' = "addPermission"
    /\ UNCHANGED <<packaging, func>>

\* addPermission resolves, or rejects with ResourceConflictException, which
\* is caught: the statement is there.
AddPermissionReturns ==
    /\ deployPc = "addPermission"
    /\ account' = [account EXCEPT !.permission = TRUE]
    /\ deployPc' = "deployed"
    /\ UNCHANGED <<packaging, func>>

DeployNext ==
    \/ AddParamSubscribers
    \/ UpdateCloudFormation
    \/ \E cb \in Callbacks : ParamValueReturns(cb)
    \/ \E cb \in Callbacks : ParamValueCatches(cb)
    \/ \E value \in StoredValues : StoreChanges("p", value)
    \/ DeployParamStoreSubscriber
    \/ PutRolePolicyReturns
    \/ GetFunctionReturns
    \/ UpdateFunctionCodeReturns
    \/ UpdateFunctionCodeCatches
    \/ LambdaRoleReturns
    \/ CreateFunctionReturns
    \/ CreateLogGroupReturns
    \/ PutRuleReturns
    \/ PutTargetsReturns
    \/ AddPermissionReturns

DeploySpec == InitDeploy /\ [][DeployNext]_vars

-----------------------------------------------------------------------------
\* Vocabulary of the claims.

Returned == pc = "idle" /\ ret # "none"
Reads == {"getParameter", "getParametersByPath"}
TargetCalls == {"getFunctionConfiguration", "updateFunctionConfiguration"}
Path == subscriberParameterPath(event.name)

IsSubscription(entry) == variant = "table" \/ (entry.Value # Undefined /\ ~JSONparse(entry.Value).threw)
Pair(entry) == <<TargetOf(entry).lambda, TargetOf(entry).environment>>
PairwiseDistinct(s) == \A i, j \in 1..Len(s) : i # j => s[i] # s[j]

\* What the store (or the table) holds for the parameter of the event.
SubscriptionSet ==
    IF variant = "table"
    THEN (IF event.name \in DOMAIN subscriptions THEN subscriptions[event.name] ELSE <<>>)
    ELSE Listing(Path)

UpdateFailures == {x \in failed : x.call \in TargetCalls}
WrittenOk(i) == \E k \in 1..Len(writes) : writes[k].idx = i /\ writes[k].ok
ResolutionDone ==
    /\ variant \in RegistryVariants
    /\ "getParametersByPath" \in calls
    /\ pc # "getParametersByPath"
    /\ \A x \in failed : x.call \notin Reads

-----------------------------------------------------------------------------
\* C1: a notification whose operation is neither Create nor Update causes no
\* parameter-store read and no target write, and the handler returns success.
C1_IgnoredOperationDoesNothing ==
    (event # NoEvent /\ ~IsChange(event.operation)) =>
        /\ calls = {}
        /\ writes = <<>>
        /\ Returned => ret = "success"

\* C2: with three subscriptions of which the update of the second raises, the
\* first and the third are still applied, the handler returns success and
\* exactly one failure is reported.
C2_PartialFailureIsolation ==
    (/\ Returned /\ IsChange(event.operation)
     /\ Len(SubscriptionSet) = 3
     /\ \A i \in 1..3 : IsSubscription(SubscriptionSet[i])
     /\ \E x \in UpdateFailures : x.idx = 2) =>
        /\ ret = "success"
        /\ WrittenOk(1) /\ WrittenOk(3)
        /\ Cardinality(failed) = 1

\* C3: whatever call fails, the handler ends by returning a status object; its
\* promise never rejects.
C3_NeverThrows == ret # "rejected"

\* C4: every successful update leaves the target with its previous variables
\* and exactly the one named variable set to the new value.
C4_MergeNeverReplace ==
    \A k \in 1..Len(writes) :
        writes[k].ok =>
            writes[k].Variables = [writes[k].before EXCEPT ![writes[k].environment] = writes[k].value]

\* C5: (table-driven and paged handlers, and the registry handler before
\* them) for a Create/Update whose subscription set has N pairwise distinct
\* (target, variable) pairs and no failing call, the handler returns success
\* having issued exactly N writes, the k-th for the k-th subscription.
C5_OneWritePerSubscription ==
    (/\ variant \in SequentialVariants
     /\ Returned /\ IsChange(event.operation) /\ failed = {}
     /\ \A i \in 1..Len(SubscriptionSet) : IsSubscription(SubscriptionSet[i])
     /\ PairwiseDistinct([i \in 1..Len(SubscriptionSet) |-> Pair(SubscriptionSet[i])])) =>
        /\ ret = "success"
        /\ Len(writes) = Len(SubscriptionSet)
        /\ \A k \in 1..Len(writes) :
             /\ writes[k].idx = k /\ writes[k].ok
             /\ <<writes[k].FunctionName, writes[k].environment>> = Pair(SubscriptionSet[k])
             /\ writes[k].value = updatedParamValue

C5_Witness ==
    /\ variant = "paged" /\ Returned /\ ret = "success" /\ failed = {}
    /\ Len(SubscriptionSet) = 3 /\ Len(writes) = 3
    /\ PairwiseDistinct([i \in 1..3 |-> Pair(SubscriptionSet[i])])

\* C6: when the store serves the entries under the prefix over several pages,
\* with a token on all but the last, the resolved list is all of them in page
\* order, none lost and none twice.
C6_AllPagesConcatenated ==
    (ResolutionDone /\ tokenMode # "same") => parameters = Listing(Path)

\* C7: on a store that returns the same continuation token with every page,
\* resolution ends after finitely many fetches. Such a store answers a repeated
\* request as it answered the first, so resolution ends only if no request is
\* repeated: after the first page (no token sent) and the second (the token
\* sent once) no third page is asked for.
C7_PaginationTerminates ==
    (tokenMode = "same" /\ pc = "getParametersByPath") => depth < 2

\* C8: pagination stops exactly at a page whose continuation token is missing
\* or null: after such a page no further page is fetched, and a page that has
\* a token (even an empty one) does not end it.
StopsExactlyAtMissingToken ==
    (variant \in {"registry", "paged"} /\ pc = "getParametersByPath" /\ failed' = failed) =>
        /\ pc' = "getParametersByPath" => nextToken'.kind = "token"
        /\ pc' # "getParametersByPath" => (tokenMode # "same" /\ parameters' = Listing(Path))

C8_StopsExactlyAtMissingToken == [][StopsExactlyAtMissingToken]_vars

\* C9: a registry entry whose value is absent or unparsable gives one skipped
\* outcome and no write; the other entries are processed and the cycle succeeds.
C9_BadEntrySkipped ==
    (/\ variant \in {"registry", "paged"}
     /\ Returned /\ IsChange(event.operation)
     /\ \A x \in failed : x.call = "JSON.parse"
     /\ "getParametersByPath" \in calls) =>
        /\ ret = "success"
        /\ Len(updateResults) = Len(parameters)
        /\ \A i \in 1..Len(parameters) :
             IF IsSubscription(parameters[i]) THEN WrittenOk(i)
             ELSE updateResults[i] = Skipped /\ ~\E k \in 1..Len(writes) : writes[k].idx = i

\* C10: when the changed parameter has no stored value, every write of the
\* cycle carries the empty string, and a cycle in which no call fails returns
\* success with the variable of every subscriber set to the empty string.
C10_MissingValueIsEmptyString ==
    (event # NoEvent /\ IsChange(event.operation) /\ getParameter(event.name) = Undefined) =>
        /\ \A k \in 1..Len(writes) :
             writes[k].value = "" /\ writes[k].Variables[writes[k].environment] = ""
        /\ (Returned /\ failed = {}) =>
             /\ ret = "success"
             /\ \A i \in 1..Len(parameters) :
                  IsSubscription(parameters[i]) =>
                     /\ WrittenOk(i)
                     /\ variant \in SequentialVariants =>
                          lambdaEnv[Pair(parameters[i])[1]][Pair(parameters[i])[2]] = ""

C10_Witness ==
    /\ Returned /\ ret = "success" /\ IsChange(event.operation)
    /\ getParameter(event.name) = Undefined
    /\ Len(writes) >= 2 /\ updatedParamValue = ""

-----------------------------------------------------------------------------
\* C11: the fetch of the changed parameter's value never raises: when the read
\* fails (the parameter does not exist, the read is denied) the caller gets the
\* empty string and goes on, it does not end with an error.
ValueReadFailed == Failure("getParameter", 0) \in failed

C11_FetchNeverRaises ==
    ValueReadFailed =>
        /\ updatedParamValue = ""
        /\ ~(Returned /\ ret \in {"failed", "rejected"})

\* C12: a failure of the value fetch or of the resolution of the subscriptions
\* ends the cycle before the fan-out: no target write is issued in that cycle
\* and the handler returns the failed status.
C12_ReadFailureAbortsWithFailed ==
    (\E x \in failed : x.call \in Reads) =>
        /\ writes = <<>>
        /\ calls \cap TargetCalls = {}
        /\ Returned /\ ret = "failed"

-----------------------------------------------------------------------------
\* C15: (embedded table) a notification for a name that is not a key of the
\* table resolves to the empty set: the store is not read, no write is issued,
\* and the handler returns success.
C15_UnknownNameDoesNothing ==
    (variant = "table" /\ ~loadError /\ event # NoEvent /\ event.name \notin DOMAIN subscriptions) =>
        /\ calls = {}
        /\ writes = <<>>
        /\ parameters = <<>>
        /\ Returned /\ ret = "success"

C15_Witness ==
    /\ variant = "table" /\ subscriptions # <<>>
    /\ event = [name |-> "q", operation |-> "Update"]
    /\ Returned /\ ret = "success" /\ calls = {}

\* C16: (embedded table) when the serialized table cannot be parsed at process
\* start, the process starts with an empty table: every notification after
\* that finds nothing to update and returns success.
TableTextUnparsable == variant = "table" /\ JSONparseTable(OrEmptyObject(processEnv)).threw

C16_UnparsableTableIsEmpty ==
    TableTextUnparsable =>
        /\ ~loadError
        /\ subscriptions = <<>>
        /\ event # NoEvent => (Returned /\ ret = "success" /\ calls = {})

-----------------------------------------------------------------------------
\* C17: when a target function appears in more than one subscription of a set,
\* its configuration after the cycle is the one the last write for it produced.
\* The writes history is in the order Lambda applied the writes; idx is the
\* position of the subscription in the set, the order the writes are issued in.
OkWrites(f) == {k \in 1..Len(writes) : writes[k].ok /\ writes[k].FunctionName = f}
LastApplied(f) == CHOOSE k \in OkWrites(f) : \A j \in OkWrites(f) : j <= k
LastIssued(f) == CHOOSE k \in OkWrites(f) : \A j \in OkWrites(f) : writes[j].idx <= writes[k].idx

-----------------------------------------------------------------------------
\* C18: a cycle is read-only towards the parameter store and the
\* subscriptions: no step of a handler creates, changes or deletes a parameter
\* value, a registry entry or a row of the embedded table.
HandlerLeavesStore == Cycle => UNCHANGED <<ssmValue, registry, subscriptions>>

C18_CycleIsReadOnly == [][HandlerLeavesStore]_vars

\* A cycle has read the store and changed a target, on a store that has
\* changed since the cycle before.
C18_Witness ==
    /\ Returned /\ ret = "success" /\ Reads \cap calls # {}
    /\ Len(writes) >= 2 /\ lambdaEnv # InitialEnv
    /\ prev.event.name = event.name /\ IsChange(prev.event.operation)
    /\ prev.value = "v1" /\ updatedParamValue = "v2"

-----------------------------------------------------------------------------
\* C13: the handler invoked twice in succession with the same notification,
\* the store (the value read is the same), the subscriptions and the targets
\* not changed in between, leaves every target's configuration after the
\* second invocation equal to its configuration after the first.
SameAgain == prev.event = event /\ prev.value = updatedParamValue

C13_Idempotent ==
    (pc = "idle" /\ ret = "success" /\ failed = {} /\ SameAgain) => lambdaEnv = prev.env

C13_Witness ==
    /\ variant \in {"paged", "table"}
    /\ pc = "idle" /\ ret = "success" /\ failed = {} /\ SameAgain
    /\ IsChange(event.operation) /\ Len(writes) = 3 /\ lambdaEnv # InitialEnv

\* C14: the value a cycle propagates is the one the store holds during that
\* cycle: once fetched it is the stored value (the empty string for none),
\* and after a cycle in which no call failed every subscribed target's
\* variable holds it, whatever an earlier cycle propagated.
SubscribersHold(value) ==
    \A i \in 1..Len(parameters) :
        lambdaEnv[Pair(parameters[i])[1]][Pair(parameters[i])[2]] = value

C14_FetchedFresh ==
    /\ (event # NoEvent /\ pc \notin {"idle", "getParameter"}) =>
          updatedParamValue = (IF ssmValue[event.name] = Undefined THEN "" ELSE ssmValue[event.name])
    /\ (pc = "idle" /\ ret = "success" /\ failed = {} /\ IsChange(event.operation)) =>
          SubscribersHold(updatedParamValue)

\* The store has changed from v1 to v2 between two cycles for p, and the
\* targets that held v1 hold v2.
C14_Witness ==
    /\ pc = "idle" /\ ret = "success" /\ failed = {}
    /\ event.name = "p" /\ prev.event.name = "p"
    /\ prev.value = "v1" /\ updatedParamValue = "v2" /\ ssmValue["p"] = "v2"
    /\ Len(parameters) >= 2 /\ prev.parameters = parameters
    /\ SubscribersHold("v2")
    /\ \A i \in 1..Len(parameters) : prev.env[Pair(parameters[i])[1]][Pair(parameters[i])[2]] = "v1"

\* C19: resolving the same parameter name twice, the store and the table not
\* changed in between, yields the same subscriptions in the same order.
Resolved ==
    /\ event # NoEvent /\ IsChange(event.operation)
    /\ variant # "table" => ResolutionDone

C19_ResolutionStable ==
    (Resolved /\ prev.event.name = event.name /\ IsChange(prev.event.operation)) =>
        parameters = prev.parameters

C19_Witness ==
    /\ variant = "paged" /\ Resolved
    /\ prev.event.name = event.name /\ IsChange(prev.event.operation)
    /\ Len(parameters) = 3 /\ parameters = prev.parameters

-----------------------------------------------------------------------------
\* C20: the packaging creates exactly one row of the embedded table (or one
\* registry entry) for every (parameter, function, variable) declared in the
\* functions' parameters blocks: none is missing and none is there twice.
Declarations == Entries(functions, 1)

RowsOf(paramName) ==
    IF paramName \in DOMAIN parameterSubscribers THEN parameterSubscribers[paramName] ELSE <<>>

RowsFor(d) ==
    {k \in 1..Len(RowsOf(d.paramName)) : RowsOf(d.paramName)[k] = [func |-> d.funcName, env |-> d.envName]}

EntriesFor(d) ==
    {r \in Resources : /\ r.Name = <<"subscriber", d.paramName, d.envName, d.funcKey>>
                        /\ r.Value = SubscriberValue(d.funcName, d.envName)}

OneRowPerDeclaration ==
    /\ \A i \in 1..Len(Declarations) : Cardinality(RowsFor(Declarations[i])) = 1
    /\ Len(RowsOf("p")) + Len(RowsOf("q")) = Len(Declarations)
    /\ deployPc = "done" => processEnv = JSONstringify(parameterSubscribers)

OneEntryPerDeclaration ==
    /\ \A i \in 1..Len(Declarations) : Cardinality(EntriesFor(Declarations[i])) = 1
    /\ Cardinality(Resources) = Len(Declarations)

C20_OnePerDeclaration ==
    (plugin \in Plugins /\ deployPc # "package") =>
        IF plugin = "table" THEN OneRowPerDeclaration ELSE OneEntryPerDeclaration

-----------------------------------------------------------------------------
\* C21: once the "table" plugin has packaged the service, the variable of
\* every declaration holds the value of its parameter: the one the template
\* itself declares for the parameter if there is one, otherwise the value the
\* store answered with, and the empty string if the read was rejected.
DeclarationList == Entries(functions, 1)

ValueSet(d) ==
    IF d.envName \in DOMAIN Variables[d.funcKey] THEN Variables[d.funcKey][d.envName] ELSE Undefined

C21_LocalThenStoreThenEmpty ==
    (plugin = "table" /\ deployPc = "done") =>
        \A i \in 1..Len(DeclarationList) :
            LET d == DeclarationList[i] IN
            IF d.paramName \in DOMAIN localParameters
            THEN ValueSet(d) = localParameters[d.paramName]
            ELSE \E a \in answers :
                    /\ a.paramName = d.paramName
                    /\ ValueSet(d) = (IF a.rejected THEN "" ELSE a.Value)

C21_Witness ==
    /\ plugin = "table" /\ deployPc = "done"
    /\ \E i, j, k \in 1..Len(DeclarationList) :
         /\ DeclarationList[i].paramName = "p" /\ "p" \in DOMAIN localParameters
         /\ ValueSet(DeclarationList[i]) = "local"
         /\ DeclarationList[j].paramName = "q" /\ ValueSet(DeclarationList[j]) = "w"
         /\ DeclarationList[k].paramName = "q" /\ ValueSet(DeclarationList[k]) = ""

-----------------------------------------------------------------------------
\* C28: once the "table" plugin has packaged the service with no read of the
\* store rejected, any two declarations of the same parameter have been given
\* the same value, whatever the store did while the callbacks waited.
C28_SameValuePerParameter ==
    (plugin = "table" /\ deployPc = "done" /\ \A a \in answers : ~a.rejected) =>
        \A i, j \in 1..Len(DeclarationList) :
            DeclarationList[i].paramName = DeclarationList[j].paramName =>
                ValueSet(DeclarationList[i]) = ValueSet(DeclarationList[j])

-----------------------------------------------------------------------------
\* C29: on an account that holds neither the role nor the function,
\* deployParamStoreSubscriber ends with the role there and the policy attached
\* to it, the function created and the event rule targeting a defined ARN; it
\* does not end by rejecting.
DeployEnded == plugin = "store" /\ deployPc \in {"deployed", "deploy failed"}

C29_FirstDeploymentCompletes ==
    (DeployEnded /\ account.first) =>
        /\ deployPc = "deployed"
        /\ account.role /\ account.policy
        /\ account.function
        /\ account.rule /\ account.target # Undefined

-----------------------------------------------------------------------------
\* C22: the handlers that await each update in turn process the resolved
\* subscriptions one at a time and in order: the writes are issued in the
\* order of the list, the calls for an entry are issued only when every
\* subscription before it has been written, and the accumulated results are
\* the outcomes of the entries in the order of the list.
Outcome(entry) ==
    IF variant # "table" /\ entry.Value = Undefined THEN Skipped
    ELSE Updated(TargetOf(entry).lambda)

C22_OneAtATimeInOrder ==
    variant \in SequentialVariants =>
        /\ \A k, l \in 1..Len(writes) : k < l => writes[k].idx < writes[l].idx
        /\ pc \in TargetCalls =>
              /\ Len(updateResults) = idx - 1
              /\ \A i \in 1..(idx - 1) : IsSubscription(parameters[i]) => WrittenOk(i)
        /\ Len(updateResults) <= Len(parameters)
        /\ \A k \in 1..Len(updateResults) : updateResults[k] = Outcome(parameters[k])
        /\ (Returned /\ ret = "success") => Len(updateResults) = Len(parameters)

C22_Witness ==
    /\ variant \in SequentialVariants /\ Returned /\ ret = "success"
    /\ Len(writes) = 3 /\ Len(updateResults) = 3
    /\ updateResults[1] # updateResults[3]

-----------------------------------------------------------------------------
\* C27: in the handlers that await each update in turn, an update that fails
\* leaves its target as it was: when the read of the target's configuration
\* is rejected no write is issued for that entry, and when the write is
\* rejected the target's variables are the ones it had before the write.
WriteIssued(i) ==
    \/ \E k \in 1..Len(writes) : writes[k].idx = i
    \/ pc = "updateFunctionConfiguration" /\ idx = i

C27_FailedUpdateLeavesTarget ==
    variant \in SequentialVariants =>
        /\ \A x \in failed : x.call = "getFunctionConfiguration" => ~WriteIssued(x.idx)
        /\ \A k \in 1..Len(writes) :
              ~writes[k].ok => lambdaEnv[writes[k].FunctionName] = writes[k].before

C27_Witness ==
    /\ variant \in SequentialVariants /\ Returned
    /\ Len(writes) = 2 /\ writes[1].ok /\ ~writes[2].ok
    /\ writes[1].FunctionName = writes[2].FunctionName
    /\ writes[2].before # InitialEnv[writes[2].FunctionName]
    /\ lambdaEnv[writes[2].FunctionName] = writes[2].before

-----------------------------------------------------------------------------
\* C24: after a Create/Update cycle that returned success with no call
\* failed, two subscriptions of the set that name the same target with
\* different variables have both been applied: each of the two variables of
\* the target holds the new value.
SameTarget(i, j) ==
    /\ IsSubscription(parameters[i]) /\ IsSubscription(parameters[j])
    /\ TargetOf(parameters[i]).lambda = TargetOf(parameters[j]).lambda
    /\ TargetOf(parameters[i]).environment # TargetOf(parameters[j]).environment

C24_BothVariablesHold ==
    (Returned /\ ret = "success" /\ failed = {} /\ IsChange(event.operation)) =>
        \A i, j \in 1..Len(parameters) :
            SameTarget(i, j) =>
                LET target == TargetOf(parameters[i])
                IN  lambdaEnv[target.lambda][target.environment] = updatedParamValue

-----------------------------------------------------------------------------
\* C23: a cycle for parameter P writes only to targets subscribed to P: every
\* write of the invocation goes to a function that has a registry entry
\* written for the parameter of the event, not merely one for a parameter
\* whose name has P as its upper levels.
ParamOf(entry) == SubSeq(entry.Name, 2, Len(entry.Name) - 2)

SubscribedTo(f, paramName) ==
    \E i \in 1..Len(registry) :
        /\ IsSubscription(registry[i])
        /\ TargetOf(registry[i]).lambda = f
        /\ ParamOf(registry[i]) = Segments(paramName)

C23_WritesOnlyToSubscribers ==
    variant \in RegistryVariants =>
        \A k \in 1..Len(writes) : SubscribedTo(writes[k].FunctionName, event.name)

-----------------------------------------------------------------------------
\* Every notification sent has been handled by an invocation that completed
\* with no call rejected.
AllCompleted ==
    /\ Len(notified) = MaxInvocations
    /\ Len(invocations) = Len(notified)
    /\ \A i \in 1..Len(invocations) : invocations[i].pc = "done"

\* The subscriptions to a parameter.
SubscribersOf(name) ==
    IF variant = "table" THEN Lookup(subscriptions, name).rows
    ELSE Listing(subscriberParameterPath(name))

\* Every variable subscribed to the parameter holds the value the store holds.
Synchronized(name) ==
    \A k \in 1..Len(SubscribersOf(name)) :
        LET target == TargetOf(SubscribersOf(name)[k])
        IN  lambdaEnv[target.lambda][target.environment] = ssmValue[name]

\* C25: two invocations for two different parameters, each of which updates a
\* different variable of the same target, lose no update: once both have
\* completed, the target holds the value of both parameters.
C25_NoLostUpdate ==
    (AllCompleted /\ notified[1].name # notified[2].name) =>
        Synchronized(notified[1].name) /\ Synchronized(notified[2].name)

\* C26: two changes of one parameter (v1, then v2) handled by invocations
\* that overlap end synchronized: once both have completed with no failure,
\* every variable subscribed to the parameter holds the value the store
\* holds, v2.
C26_EndsWithCurrentValue ==
    (AllCompleted /\ notified[1].name = notified[2].name) =>
        Synchronized(notified[1].name)

====
